---- MODULE Spec2Model ----
(***************************************************************************)
(* Retrieval core of the concert-tour RAG service (src/app/rag_system.py). *)
(*                                                                         *)
(* One RAGSystem instance works on one data directory.  The instance holds *)
(* a FAISS IndexFlatL2 (self.index) and a metadata dictionary              *)
(* (self.metadata) with the lists "chunks" and "documents"; the directory  *)
(* holds faiss_index.bin and document_metadata.json.                       *)
(*                                                                         *)
(* Numbers.  Embeddings are float vectors in the code.  Here a vector is a *)
(* tuple of integers, and a unit vector has Euclidean length Unit, so      *)
(* normalize_L2 and the squared L2 distance are computed exactly.  A       *)
(* distance D of the model is the distance D / Unit^2 of the code, and the *)
(* score 1 / (1 + d) is the exact fraction Unit^2 / (Unit^2 + D).          *)
(* Floating-point rounding is not modelled.                                *)
(*                                                                         *)
(* Further sections: the command parsing of src/app/utils.py and the       *)
(* relevance test of src/app/document_processor.py on character strings,   *)
(* a session on a directory that already holds files (with the reset of    *)
(* src/streamlit_app.py), add_document statement by statement in several   *)
(* threads, and two instances on one directory.                            *)
(***************************************************************************)
EXTENDS Integers, Sequences, FiniteSets, TLC

VARIABLES
    index,       \* self.index: [d, xb], xb the stored rows in insertion order
    metadata,    \* self.metadata: [chunks, documents]
    index_file,  \* faiss_index.bin: NoFile or the serialized index
    meta_file,   \* document_metadata.json: NoFile, Truncated or the JSON value
    uuid_ctr,    \* number of document ids handed out by uuid.uuid4()
    clock,       \* datetime.now()
    last,        \* the last call on the instance and what the caller saw of it
    inflight,    \* per thread, the add_document call it is in the middle of
    other        \* a second RAGSystem on the same directory, while the first acts

vars == <<index, metadata, index_file, meta_file, uuid_ctr, clock, last, inflight, other>>

\* What the calls of a single thread on a single instance leave alone.
concurrent == <<inflight, other>>

---------------------------------------------------------------------------
(* Bounds of the model *)

MaxDocs == 2      \* add_document calls that get past the embedder
MaxChunks == 2    \* chunks the splitter yields for one document
MaxRows == 3      \* rows one index holds
MaxK == 3         \* largest k passed to search

---------------------------------------------------------------------------
(* Texts, embedder, vectors *)

\* Passages a document is made of, and the texts a query may be: a query
\* is a passage, a text whose embedding has the direction of a passage's
\* ("beta"), or a text unlike every passage ("delta").
Passages == {"alpha", "gamma"}
QueryTexts == Passages \cup {"beta", "delta"}
Summaries == {"s1", "s2"}

\* document_text values: the text is modelled by the ordered passages that
\* RecursiveCharacterTextSplitter cuts it into (the empty text has none).
DocumentTexts ==
    UNION {[1..n -> Passages] : n \in 0..MaxChunks}

split_text(document_text) == document_text

\* Length of a unit vector in the fixed-point representation (5 * 13, so
\* that the directions (3,4), (4,3), (5,12) normalise without remainder).
Unit == 65

\* SentenceTransformer.encode on one text: a fixed raw vector per text.
\* "alpha" and "beta" point in the same direction with different lengths,
\* so they coincide after normalisation.
encode(text) ==
    CASE text = "alpha" -> <<3, 4>>
      [] text = "beta"  -> <<6, 8>>
      [] text = "gamma" -> <<4, 3>>
      [] text = "delta" -> <<5, 12>>

embedding_dimension == Len(encode("alpha"))

_generate_embeddings(texts) == [i \in 1..Len(texts) |-> encode(texts[i])]

RECURSIVE SumSq(_, _)
SumSq(v, n) == IF n = 0 THEN 0 ELSE v[n] * v[n] + SumSq(v, n - 1)

RECURSIVE SumAbs(_, _)
SumAbs(v, n) ==
    IF n = 0 THEN 0 ELSE (IF v[n] < 0 THEN -v[n] ELSE v[n]) + SumAbs(v, n - 1)

\* Euclidean norm of an integer vector whose norm is an integer (the norm
\* is at most the sum of the absolute values of the components).
Norm(v) ==
    CHOOSE r \in 0..SumAbs(v, Len(v)) : r * r = SumSq(v, Len(v))

\* faiss.normalize_L2 on one row: scale to unit length; a zero row is left
\* as it is.
Scaled(v, nr) == IF nr = 0 THEN v ELSE [j \in 1..Len(v) |-> (v[j] * Unit) \div nr]
renorm_L2(v) == Scaled(v, Norm(v))

normalize_L2(x) == [i \in 1..Len(x) |-> renorm_L2(x[i])]

\* Squared L2 distance between two vectors (fvec_L2sqr).
L2sqr(a, b) == SumSq([j \in 1..Len(a) |-> a[j] - b[j]], Len(a))

---------------------------------------------------------------------------
(* FAISS IndexFlatL2 *)

IndexFlatL2(d) == [d |-> d, xb |-> <<>>]

ntotal(ix) == Len(ix.xb)

\* index.add that puts the new rows in front of the stored ones.
IndexAdd_Prepends(ix, x) == [ix EXCEPT !.xb = x \o @]

\* index.add(x): appends the rows, so row numbers continue at ntotal.
IndexAdd(ix, x) == [ix EXCEPT !.xb = @ \o x]

\* Distance of the query to the largest possible stored distance plus one:
\* what FAISS reports, with label -1, for a result slot it cannot fill.
PadDistance == 4 * Unit * Unit + 1

\* With dis[i] the distance of row i (1-based) to the query: row i comes
\* before row j in the result, nearer first and on equal distance the lower
\* row number first.
Closer(dis, i, j) ==
    \/ dis[i] < dis[j]
    \/ dis[i] = dis[j] /\ i < j

\* The rows of a set in result order, given the distances dis of all rows
\* to the query: the first is the row that comes before every other one.
RECURSIVE RowOrder(_, _)
FirstThenRest(dis, rows, first) == <<first>> \o RowOrder(dis, rows \ {first})
RowOrder(dis, rows) ==
    IF rows = {} THEN <<>>
    ELSE FirstThenRest(dis, rows,
             CHOOSE i \in rows : \A j \in rows \ {i} : Closer(dis, i, j))

\* The k result slots, given the distances and the result order: [D, I];
\* I holds 0-based row numbers, and a slot the index cannot fill holds -1.
Slots(dis, order, k) ==
    [D |-> [r \in 1..k |-> IF r <= Len(dis) THEN dis[order[r]] ELSE PadDistance],
     I |-> [r \in 1..k |-> IF r <= Len(dis) THEN order[r] - 1 ELSE -1]]

\* index.search(q, k).
SearchDistances(dis, k) == Slots(dis, RowOrder(dis, 1..Len(dis)), k)
IndexSearch(ix, q, k) ==
    SearchDistances([i \in 1..ntotal(ix) |-> L2sqr(ix.xb[i], q)], k)

---------------------------------------------------------------------------
(* Files *)

\* A file of the data directory: absent, cut short by a failed write, or
\* holding what was written.
NoFile == [kind |-> "absent"]
Truncated == [kind |-> "truncated"]

exists(f) == f.kind # "absent"

RECURSIVE Flatten(_)
Flatten(x) == IF x = <<>> THEN <<>> ELSE Head(x) \o Flatten(Tail(x))

\* faiss.write_index: dimension, row count and the rows as one flat array.
write_index(ix) ==
    [kind |-> "faiss", d |-> ix.d, ntotal |-> ntotal(ix), codes |-> Flatten(ix.xb)]

\* read_index that takes the flat array column by column.
read_index_ColumnMajor(f) ==
    [d |-> f.d,
     xb |-> [i \in 1..f.ntotal |->
                [j \in 1..f.d |-> f.codes[(j - 1) * f.ntotal + i]]]]

\* faiss.read_index: cuts the flat array back into ntotal rows of d values.
read_index(f) ==
    [d |-> f.d,
     xb |-> [i \in 1..f.ntotal |-> [j \in 1..f.d |-> f.codes[(i - 1) * f.d + j]]]]

\* json.dump / json.load of the metadata: strings, integers, lists and
\* string-keyed dictionaries are JSON values, written and read back
\* field by field.
json_dump(m) ==
    [kind |-> "json", chunks |-> m.chunks, documents |-> m.documents]

json_load(f) ==
    [chunks |-> f.chunks, documents |-> f.documents]

---------------------------------------------------------------------------
(* RAGSystem *)

EmptyMetadata == [chunks |-> <<>>, documents |-> <<>>]

\* A call as its caller sees it: the operation, whether it returned or
\* raised, and the value returned or the error raised.  For search, also
\* the arguments and the raw arrays index.search handed back; for an
\* add_document that got past the embedder, args is <<document_text, summary>>.
Call(op, status, value) ==
    [op |-> op, status |-> status, value |-> value, args |-> <<>>,
     query |-> "", k |-> 0, D |-> <<>>, I |-> <<>>]

\* The add_document call with its arguments.
AddCall(status, value, document_text, summary) ==
    [Call("add_document", status, value) EXCEPT !.args = <<document_text, summary>>]

\* RAGSystem.__init__ that always takes the branch of the new index.
Construct_AlwaysNew(ixf, mf) ==
    [status |-> "returned", value |-> "RAGSystem",
     index |-> IndexFlatL2(embedding_dimension),
     metadata |-> EmptyMetadata]

\* RAGSystem.__init__ on a directory with the given files: the index file
\* alone decides between loading and starting fresh.
Construct(ixf, mf) ==
    IF exists(ixf)
    THEN IF ~exists(mf)
         THEN [status |-> "raised", value |-> "FileNotFoundError"]
         ELSE IF mf.kind = "truncated"
         THEN [status |-> "raised", value |-> "JSONDecodeError"]
         ELSE [status |-> "returned", value |-> "RAGSystem",
               index |-> read_index(ixf), metadata |-> json_load(mf)]
    ELSE [status |-> "returned", value |-> "RAGSystem",
          index |-> IndexFlatL2(embedding_dimension),
          metadata |-> EmptyMetadata]

\* RecordChunks with the position within the document taken as chunk_id.
RecordChunks_IdIsPosition(md, chunks, doc_id, n) ==
    [md EXCEPT !.chunks = @ \o
        [i \in 1..n |-> [text |-> chunks[i],
                         document_id |-> doc_id,
                         chunk_id |-> i - 1,
                         position |-> i - 1]]]

\* RecordChunks with the chunk_id written as the position as well.
RecordChunks_PositionIsChunkId(md, chunks, doc_id, n) ==
    [md EXCEPT !.chunks = @ \o
        [i \in 1..n |-> [text |-> chunks[i],
                         document_id |-> doc_id,
                         chunk_id |-> Len(md.chunks) + (i - 1),
                         position |-> Len(md.chunks) + (i - 1)]]]

\* The chunk records of the first n chunks of a document, appended to the
\* chunk list (the loop of add_document after n iterations).
RecordChunks(md, chunks, doc_id, n) ==
    LET start_idx == Len(md.chunks)
    IN  [md EXCEPT !.chunks = @ \o
            [i \in 1..n |-> [text |-> chunks[i],
                             document_id |-> doc_id,
                             chunk_id |-> start_idx + (i - 1),
                             position |-> i - 1]]]

\* RecordDocument that puts the new record at the head of the list.
RecordDocument_Prepends(md, start_idx, chunks, doc_id, summary, now) ==
    [md EXCEPT !.documents = <<
        [id |-> doc_id,
         summary |-> summary,
         timestamp |-> now,
         chunk_ids |-> [i \in 1..Len(chunks) |-> start_idx + (i - 1)]]>> \o @]

\* RecordDocument with chunk_ids as range(len(chunks)), without start_idx.
RecordDocument_ChunkIdsFromZero(md, start_idx, chunks, doc_id, summary, now) ==
    [md EXCEPT !.documents = Append(@,
        [id |-> doc_id,
         summary |-> summary,
         timestamp |-> now,
         chunk_ids |-> [i \in 1..Len(chunks) |-> i - 1]])]

\* The document record, appended after the chunk loop; start_idx is the
\* length of the chunk list before the loop.
RecordDocument(md, start_idx, chunks, doc_id, summary, now) ==
    [md EXCEPT !.documents = Append(@,
        [id |-> doc_id,
         summary |-> summary,
         timestamp |-> now,
         chunk_ids |-> [i \in 1..Len(chunks) |-> start_idx + (i - 1)]])]

\* The in-memory part of add_document, lines 89-116.
Ingest(ix, md, document_text, summary, doc_id, now) ==
    LET chunks == split_text(document_text)
        chunk_embeddings == normalize_L2(_generate_embeddings(chunks))
        start_idx == Len(md.chunks)
    IN  [index |-> IndexAdd(ix, chunk_embeddings),
         metadata |-> RecordDocument(RecordChunks(md, chunks, doc_id, Len(chunks)),
                                     start_idx, chunks, doc_id, summary, now)]

\* Score without the 1 in the denominator: 1 / d.
Score_NoOffset(D) == [num |-> Unit * Unit, den |-> D]

\* The distance-to-score conversion of search, as the fraction num / den.
Score(D) == [num |-> Unit * Unit, den |-> Unit * Unit + D]

\* The result loop with the test idx > 0 in place of idx >= 0.
RECURSIVE Results_DropsRowZero(_, _, _, _)
Results_DropsRowZero(md, D, I, i) ==
    IF i > Len(I) THEN <<>>
    ELSE IF I[i] > 0 /\ I[i] < Len(md.chunks)
         THEN <<[text |-> md.chunks[I[i] + 1].text,
                 document_id |-> md.chunks[I[i] + 1].document_id,
                 score |-> [num |-> Unit * Unit, den |-> Unit * Unit + D[i]]]>>
              \o Results_DropsRowZero(md, D, I, i + 1)
         ELSE Results_DropsRowZero(md, D, I, i + 1)

\* The result loop of search over the k slots of index.search.
RECURSIVE Results(_, _, _, _)
Results(md, D, I, i) ==
    IF i > Len(I) THEN <<>>
    ELSE IF I[i] >= 0 /\ I[i] < Len(md.chunks)
         THEN <<[text |-> md.chunks[I[i] + 1].text,
                 document_id |-> md.chunks[I[i] + 1].document_id,
                 score |-> Score(D[i])]>> \o Results(md, D, I, i + 1)
         ELSE Results(md, D, I, i + 1)

\* The result of search for the given index.search output and results.
SearchOutput(found, results) ==
    [status |-> "returned", D |-> found.D, I |-> found.I, results |-> results]

\* search that raises when it has no result to return.
SearchWith_EmptyIsError(md, found, results) ==
    [SearchOutput(found, results) EXCEPT
        !.status = IF results = <<>> THEN "raised" ELSE "returned"]
search_EmptyIsError(ix, md, query, k) ==
    SearchWith_EmptyIsError(md, IndexSearch(ix, renorm_L2(encode(query)), k),
        Results(md, IndexSearch(ix, renorm_L2(encode(query)), k).D,
                    IndexSearch(ix, renorm_L2(encode(query)), k).I, 1))

\* search that sorts its results by ascending score before returning them.
SearchWith_AscendingScore(md, found, results) ==
    SearchOutput(found, [r \in 1..Len(results) |-> results[Len(results) + 1 - r]])
search_AscendingScore(ix, md, query, k) ==
    SearchWith_AscendingScore(md, IndexSearch(ix, renorm_L2(encode(query)), k),
        Results(md, IndexSearch(ix, renorm_L2(encode(query)), k).D,
                    IndexSearch(ix, renorm_L2(encode(query)), k).I, 1))

\* search, lines 147-158: the results for what index.search handed back.
SearchWith(md, found) == SearchOutput(found, Results(md, found.D, found.I, 1))

\* search that hands the query embedding to the index without normalize_L2.
search_RawQuery(ix, md, query, k) ==
    SearchWith(md, IndexSearch(ix, _generate_embeddings(<<query>>)[1], k))

\* search: what it returns, with the raw arrays of index.search.
search(ix, md, query, k) ==
    SearchWith(md, IndexSearch(ix, normalize_L2(_generate_embeddings(<<query>>))[1], k))

\* _save that writes the index file only; the metadata file stays.
_save_IndexOnly(ix, md) == [index_file |-> write_index(ix), meta_file |-> meta_file]

\* _save: the two files it leaves.
_save(ix, md) == [index_file |-> write_index(ix), meta_file |-> json_dump(md)]

\* What get_document_by_id returns when no record has the id.
None == [none |-> TRUE]

\* get_document_by_id whose loop returns on its first iteration.
get_document_by_id_FirstRecord(md, doc_id) ==
    IF Len(md.documents) = 0 THEN None ELSE md.documents[1]

\* get_document_by_id: the first record with the id, in list order.
get_document_by_id(md, doc_id) ==
    IF \E i \in 1..Len(md.documents) : md.documents[i].id = doc_id
    THEN md.documents[CHOOSE i \in 1..Len(md.documents) :
                          /\ md.documents[i].id = doc_id
                          /\ \A j \in 1..(i - 1) : md.documents[j].id # doc_id]
    ELSE None

get_all_documents(md) == md.documents

get_document_chunks(md, doc_id) ==
    SelectSeq(md.chunks, LAMBDA c : c.document_id = doc_id)

---------------------------------------------------------------------------
(* Operations *)

\* The threads that call the instance; Idle is a thread between calls.
Threads == {"t1", "t2"}
Idle == [pc |-> "idle"]

\* No second instance.
NoInstance == [none |-> TRUE]

Init ==
    /\ index_file = NoFile
    /\ meta_file = NoFile
    /\ index = Construct(NoFile, NoFile).index
    /\ metadata = Construct(NoFile, NoFile).metadata
    /\ uuid_ctr = 0
    /\ clock = 0
    /\ inflight = [t \in Threads |-> Idle]
    /\ other = NoInstance
    /\ last = Call("__init__", "returned", "RAGSystem")

\* add_document returns the new document id.
AddDocument(document_text, summary) ==
    /\ uuid_ctr < MaxDocs
    /\ ntotal(index) + Len(split_text(document_text)) <= MaxRows
    /\ Len(split_text(document_text)) > 0
    /\ index.d = embedding_dimension
    /\ \E new \in {Ingest(index, metadata, document_text, summary, uuid_ctr + 1, clock)} :
           /\ index' = new.index
           /\ metadata' = new.metadata
           /\ index_file' = _save(new.index, new.metadata).index_file
           /\ meta_file' = _save(new.index, new.metadata).meta_file
           /\ uuid_ctr' = uuid_ctr + 1
           /\ clock' = clock + 1
           /\ last' = AddCall("returned", uuid_ctr + 1, document_text, summary)
    /\ UNCHANGED concurrent

\* add_document that records the document before it calls the embedder.
AddDocumentEmbedderFails_RecordsFirst ==
    /\ \E s \in Summaries :
          metadata' = RecordDocument(metadata, Len(metadata.chunks), <<>>,
                                     uuid_ctr + 1, s, clock)
    /\ last' = Call("add_document", "raised", "EmbedderError")
    /\ UNCHANGED <<index, index_file, meta_file, uuid_ctr, clock>>
    /\ UNCHANGED concurrent

\* add_document when the embedder raises (line 92), whatever the document
\* and the summary: nothing was touched yet.
AddDocumentEmbedderFails ==
    /\ last' = Call("add_document", "raised", "EmbedderError")
    /\ UNCHANGED <<index, metadata, index_file, meta_file, uuid_ctr, clock>>
    /\ UNCHANGED concurrent

\* add_document on a text with no chunks: encode([]) yields an array with
\* one axis, and normalize_L2 (line 95) raises on it.
AddDocumentNoChunks(document_text, summary) ==
    /\ Len(split_text(document_text)) = 0
    /\ last' = AddCall("raised", "IndexError", document_text, summary)
    /\ UNCHANGED <<index, metadata, index_file, meta_file, uuid_ctr, clock>>
    /\ UNCHANGED concurrent

\* search that calls index.add on the query embedding before index.search.
Search_AddsQuery(query, k) ==
    /\ index.d = embedding_dimension
    /\ \E out \in {search(index, metadata, query, k)} :
           last' = [op |-> "search", status |-> out.status, value |-> out.results,
                    args |-> <<>>, query |-> query, k |-> k, D |-> out.D, I |-> out.I]
    /\ index' = IF ntotal(index) < MaxRows
                THEN IndexAdd(index, normalize_L2(_generate_embeddings(<<query>>)))
                ELSE index
    /\ UNCHANGED <<metadata, index_file, meta_file, uuid_ctr, clock>>
    /\ UNCHANGED concurrent

Search(query, k) ==
    /\ index.d = embedding_dimension
    /\ \E out \in {search(index, metadata, query, k)} :
           last' = [op |-> "search", status |-> out.status, value |-> out.results,
                    args |-> <<>>, query |-> query, k |-> k, D |-> out.D, I |-> out.I]
    /\ UNCHANGED <<index, metadata, index_file, meta_file, uuid_ctr, clock>>
    /\ UNCHANGED concurrent

\* A new RAGSystem is constructed on the directory and takes the place of
\* the instance (a new process, or a new session object).
Restart ==
    LET new == Construct(index_file, meta_file)
    IN  /\ last' = Call("__init__", new.status, new.value)
        /\ IF new.status = "returned"
           THEN index' = new.index /\ metadata' = new.metadata
           ELSE UNCHANGED <<index, metadata>>
        /\ UNCHANGED <<index_file, meta_file, uuid_ctr, clock>>
        /\ UNCHANGED concurrent

Next ==
    \/ \E t \in DocumentTexts, s \in Summaries : AddDocument(t, s)
    \/ AddDocumentEmbedderFails
    \/ \E t \in DocumentTexts, s \in Summaries : AddDocumentNoChunks(t, s)
    \/ \E q \in QueryTexts, k \in 1..MaxK : Search(q, k)
    \/ Restart

Spec == Init /\ [][Next]_vars

---------------------------------------------------------------------------
(* Failures after the first mutation *)

\* add_document stopped by an exception inside the metadata loop (lines
\* 99-107) after n chunk records: index.add (line 96) has appended every
\* row, and nothing undoes it.  Neither the document record nor _save is
\* reached.
AddDocumentInterrupted(document_text, summary, n) ==
    /\ uuid_ctr < MaxDocs
    /\ ntotal(index) + Len(split_text(document_text)) <= MaxRows
    /\ Len(split_text(document_text)) > 0
    /\ index.d = embedding_dimension
    /\ n \in 0..Len(split_text(document_text))
    /\ LET doc_id == uuid_ctr + 1
           chunks == split_text(document_text)
       IN  /\ index' = IndexAdd(index, normalize_L2(_generate_embeddings(chunks)))
           /\ metadata' = RecordChunks(metadata, chunks, doc_id, n)
           /\ uuid_ctr' = doc_id
           /\ last' = Call("add_document", "raised", "Interrupted")
    /\ UNCHANGED <<index_file, meta_file, clock>>
    /\ UNCHANGED concurrent

\* Where _save (lines 123-127) can fail, and the files each failure leaves:
\* in faiss.write_index before anything is written, in open() of the
\* metadata file after the index file was written, or in json.dump after
\* open() has emptied the metadata file.
SaveFailures == {"write_index", "open", "dump"}

\* add_document that puts the stores back as they were when _save raises.
AddDocumentSaveFails_RollsBack(document_text, summary, where) ==
    /\ uuid_ctr < MaxDocs
    /\ ntotal(index) + Len(split_text(document_text)) <= MaxRows
    /\ Len(split_text(document_text)) > 0
    /\ index.d = embedding_dimension
    /\ index_file' = IF where = "write_index" THEN index_file
                     ELSE write_index(IndexAdd(index,
                              normalize_L2(_generate_embeddings(split_text(document_text)))))
    /\ meta_file' = IF where = "dump" THEN Truncated ELSE meta_file
    /\ uuid_ctr' = uuid_ctr + 1
    /\ clock' = clock + 1
    /\ last' = AddCall("raised", "OSError", document_text, summary)
    /\ UNCHANGED <<index, metadata>>
    /\ UNCHANGED concurrent

\* add_document when _save raises: lines 89-116 have run, and the instance
\* keeps what they did.
AddDocumentSaveFails(document_text, summary, where) ==
    /\ uuid_ctr < MaxDocs
    /\ ntotal(index) + Len(split_text(document_text)) <= MaxRows
    /\ Len(split_text(document_text)) > 0
    /\ index.d = embedding_dimension
    /\ \E new \in {Ingest(index, metadata, document_text, summary, uuid_ctr + 1, clock)} :
           /\ index' = new.index
           /\ metadata' = new.metadata
           /\ index_file' = IF where = "write_index" THEN index_file
                            ELSE _save(new.index, new.metadata).index_file
           /\ meta_file' = IF where = "dump" THEN Truncated ELSE meta_file
           /\ uuid_ctr' = uuid_ctr + 1
           /\ clock' = clock + 1
           /\ last' = AddCall("raised", "OSError", document_text, summary)
    /\ UNCHANGED concurrent

\* The inputs of the runs with failures: documents of zero or more chunks
\* of one passage, one summary, and a query equal to and a query different
\* from the stored passage.
FaultTexts == {t \in DocumentTexts : \A i \in 1..Len(t) : t[i] = "alpha"}
FaultSummaries == {"s1"}
FaultQueries == {"alpha", "delta"}

NextFault ==
    \/ \E t \in FaultTexts, s \in FaultSummaries : AddDocument(t, s)
    \/ AddDocumentEmbedderFails
    \/ \E t \in FaultTexts, s \in FaultSummaries : AddDocumentNoChunks(t, s)
    \/ \E q \in FaultQueries, k \in 1..MaxK : Search(q, k)
    \/ Restart
    \/ \E t \in FaultTexts, s \in FaultSummaries, n \in 0..MaxChunks :
           AddDocumentInterrupted(t, s, n)
    \/ \E t \in FaultTexts, s \in FaultSummaries, w \in SaveFailures :
           AddDocumentSaveFails(t, s, w)

SpecFault == Init /\ [][NextFault]_vars

---------------------------------------------------------------------------
(* Command text and document text (src/app/utils.py, document_processor.py) *)

\* A Python str is the sequence of its characters, each a one-character
\* string.  Positions count from 1 here and from 0 in the code.  None is
\* the record None; a str that stands where None may stand is Str(s).
Str(s) == [str |-> s]

UpperLetters ==
    <<"A", "B", "C", "D", "E", "F", "G", "H", "I", "J", "K", "L", "M", "N", "O", "P", "Q", "R", "S", "T", "U", "V", "W", "X", "Y", "Z">>
LowerLetters ==
    <<"a", "b", "c", "d", "e", "f", "g", "h", "i", "j", "k", "l", "m", "n", "o", "p", "q", "r", "s", "t", "u", "v", "w", "x", "y", "z">>
LowerOf ==
    [c \in {UpperLetters[i] : i \in 1..Len(UpperLetters)} |->
        LowerLetters[CHOOSE i \in 1..Len(UpperLetters) : UpperLetters[i] = c]]

\* str.lower: every upper-case letter becomes its lower-case letter.
lower(s) == [i \in 1..Len(s) |-> IF s[i] \in DOMAIN LowerOf THEN LowerOf[s[i]] ELSE s[i]]

Whitespace == {" ", "\n", "\t"}

\* str.strip: the whitespace at both ends is removed.
RECURSIVE lstrip(_)
lstrip(s) == IF s # <<>> /\ Head(s) \in Whitespace THEN lstrip(Tail(s)) ELSE s
RECURSIVE rstrip(_)
rstrip(s) ==
    IF s # <<>> /\ s[Len(s)] \in Whitespace THEN rstrip(SubSeq(s, 1, Len(s) - 1)) ELSE s
strip(s) == rstrip(lstrip(s))

\* p stands in s at position i.
MatchAt(s, p, i) ==
    /\ i + Len(p) - 1 <= Len(s)
    /\ \A j \in 1..Len(p) : s[i + j - 1] = p[j]

\* str.find from position i on: the first position where p stands, 0 when
\* there is none (the code's -1).
Occurrences(s, p, i) == {j \in i..(Len(s) - Len(p) + 1) : MatchAt(s, p, j)}
find(s, p, i) ==
    IF Occurrences(s, p, i) = {} THEN 0
    ELSE CHOOSE j \in Occurrences(s, p, i) : \A h \in Occurrences(s, p, i) : j <= h

\* p in s
contains(s, p) == find(s, p, 1) > 0

\* s[from:] of the code with from counted from 1.
From(s, from) == IF from > Len(s) THEN <<>> ELSE SubSeq(s, from, Len(s))

\* re.search(f"{start}(.*?){end}", s, re.DOTALL) with literal start and end:
\* group(1) of the leftmost match, the shortest text between the first
\* start and the first end after it; None when nothing matches.
MatchFrom(s, start, end, i) ==
    IF i = 0 \/ find(s, end, i + Len(start)) = 0 THEN None
    ELSE Str(SubSeq(s, i + Len(start), find(s, end, i + Len(start)) - 1))
re_search(start, end, s) == MatchFrom(s, start, end, find(s, start, 1))

\* utils.py lines 71-77
delimiters ==
    << <<<<"[">>, <<"]">>>>,
       <<<<"{">>, <<"}">>>>,
       <<<<"`", "`", "`">>, <<"`", "`", "`">>>>,
       <<<<"\"">>, <<"\"">>>>,
       <<<<"'">>, <<"'">>>> >>

\* utils.py lines 86-93
phrases ==
    <<<<"a", "d", "d", " ", "t", "h", "i", "s", " ", "d", "o", "c", "u", "m", "e", "n", "t", " ", "t", "o", " ", "y", "o", "u", "r", " ", "d", "a", "t", "a", "b", "a", "s", "e", ":">>,
      <<"a", "d", "d", " ", "t", "h", "i", "s", " ", "d", "o", "c", "u", "m", "e", "n", "t", ":">>,
      <<"i", "n", "g", "e", "s", "t", " ", "t", "h", "i", "s", " ", "d", "o", "c", "u", "m", "e", "n", "t", ":">>,
      <<"p", "r", "o", "c", "e", "s", "s", " ", "t", "h", "i", "s", " ", "d", "o", "c", "u", "m", "e", "n", "t", ":">>,
      <<"h", "e", "r", "e", "'", "s", " ", "t", "h", "e", " ", "d", "o", "c", "u", "m", "e", "n", "t", ":">>,
      <<"h", "e", "r", "e", " ", "i", "s", " ", "t", "h", "e", " ", "d", "o", "c", "u", "m", "e", "n", "t", ":">>>>

\* utils.py lines 105-111
potential_commands ==
    <<<<"p", "l", "e", "a", "s", "e", " ", "a", "d", "d", " ", "t", "h", "i", "s", " ", "d", "o", "c", "u", "m", "e", "n", "t">>,
      <<"c", "a", "n", " ", "y", "o", "u", " ", "a", "d", "d", " ", "t", "h", "i", "s", " ", "d", "o", "c", "u", "m", "e", "n", "t">>,
      <<"a", "d", "d", " ", "t", "h", "i", "s", " ", "d", "o", "c", "u", "m", "e", "n", "t">>,
      <<"i", "n", "g", "e", "s", "t", " ", "t", "h", "i", "s", " ", "d", "o", "c", "u", "m", "e", "n", "t">>,
      <<"p", "r", "o", "c", "e", "s", "s", " ", "t", "h", "i", "s", " ", "d", "o", "c", "u", "m", "e", "n", "t">>>>

\* utils.py line 119
command_delims == <<<<":">>,
      <<"-">>,
      <<".">>,
      <<"\n">>>>

LongQuery == 500      \* a query longer than this may carry a document
CommandWindow == 5    \* characters after the command searched for a delimiter

\* The loop of lines 79-83: the first kind of delimiter, in the order of
\* the list, that encloses something; the enclosed text stripped.
RECURSIVE Delimited(_, _)
Delimited(query, d) ==
    IF d > Len(delimiters) THEN None
    ELSE IF re_search(delimiters[d][1], delimiters[d][2], query) # None
    THEN Str(strip(re_search(delimiters[d][1], delimiters[d][2], query).str))
    ELSE Delimited(query, d + 1)

\* The loop of lines 95-99 on query.lower(): the text after the first
\* phrase of the list that stands in it, stripped.
RECURSIVE AfterPhrase(_, _)
AfterPhrase(query_lower, p) ==
    IF p > Len(phrases) THEN None
    ELSE IF contains(query_lower, phrases[p])
    THEN Str(strip(From(query_lower, find(query_lower, phrases[p], 1) + Len(phrases[p]))))
    ELSE AfterPhrase(query_lower, p + 1)

\* Lines 119-124: what follows the command that ends before position cmd_end.
RECURSIVE AfterDelim(_, _, _)
AfterDelim(query, cmd_end, d) ==
    IF d > Len(command_delims) THEN Str(strip(From(query, cmd_end)))
    ELSE IF contains(SubSeq(From(query, cmd_end), 1,
                            IF Len(From(query, cmd_end)) < CommandWindow
                            THEN Len(From(query, cmd_end)) ELSE CommandWindow),
                     command_delims[d])
    THEN Str(strip(From(query, find(query, command_delims[d], cmd_end) + 1)))
    ELSE AfterDelim(query, cmd_end, d + 1)

\* The loop of lines 113-124.
RECURSIVE AfterCommand(_, _)
AfterCommand(query, c) ==
    IF c > Len(potential_commands) THEN None
    ELSE IF contains(lower(query), potential_commands[c])
    THEN AfterDelim(query,
                    find(lower(query), potential_commands[c], 1) + Len(potential_commands[c]),
                    1)
    ELSE AfterCommand(query, c + 1)

extract_document_from_query(query) ==
    IF Delimited(query, 1) # None THEN Delimited(query, 1)
    ELSE IF AfterPhrase(lower(query), 1) # None THEN AfterPhrase(lower(query), 1)
    ELSE IF Len(query) > LongQuery THEN AfterCommand(query, 1)
    ELSE None

\* utils.py lines 44-52: pattern i is the verb i, " this ", and one of the
\* five nouns.
ingest_verbs ==
    <<<<"a", "d", "d">>,
      <<"u", "p", "l", "o", "a", "d">>,
      <<"i", "n", "g", "e", "s", "t">>,
      <<"s", "t", "o", "r", "e">>,
      <<"p", "r", "o", "c", "e", "s", "s">>,
      <<"s", "a", "v", "e">>,
      <<"i", "n", "c", "l", "u", "d", "e">>>>
ingest_nouns ==
    <<<<"d", "o", "c", "u", "m", "e", "n", "t">>,
      <<"i", "n", "f", "o">>,
      <<"i", "n", "f", "o", "r", "m", "a", "t", "i", "o", "n">>,
      <<"t", "e", "x", "t">>,
      <<"c", "o", "n", "t", "e", "n", "t">>>>
this_ == <<" ", "t", "h", "i", "s", " ">>

\* re.search(ingest_patterns[i], text)
MatchesPattern(text, i) ==
    \E n \in 1..Len(ingest_nouns) : contains(text, ingest_verbs[i] \o this_ \o ingest_nouns[n])

detect_query_type(query) ==
    IF \E i \in 1..Len(ingest_verbs) : MatchesPattern(lower(query), i)
    THEN "ingest" ELSE "question"

\* parse_user_query that extracts the document whatever the type.
parse_user_query_AlwaysExtracts(query) ==
    <<detect_query_type(query), extract_document_from_query(query)>>

parse_user_query(query) ==
    IF detect_query_type(query) = "ingest"
    THEN <<"ingest", extract_document_from_query(query)>>
    ELSE <<detect_query_type(query), None>>

\* document_processor.py lines 23-29
CONCERT_KEYWORDS ==
    <<<<"c", "o", "n", "c", "e", "r", "t">>,
      <<"t", "o", "u", "r">>,
      <<"p", "e", "r", "f", "o", "r", "m", "a", "n", "c", "e">>,
      <<"v", "e", "n", "u", "e">>,
      <<"a", "r", "t", "i", "s", "t">>,
      <<"b", "a", "n", "d">>,
      <<"m", "u", "s", "i", "c", "i", "a", "n">>,
      <<"s", "t", "a", "g", "e">>,
      <<"t", "i", "c", "k", "e", "t">>,
      <<"a", "u", "d", "i", "e", "n", "c", "e">>,
      <<"s", "h", "o", "w">>,
      <<"l", "i", "v", "e">>,
      <<"p", "e", "r", "f", "o", "r", "m">>,
      <<"m", "u", "s", "i", "c">>,
      <<"g", "i", "g">>,
      <<"f", "e", "s", "t", "i", "v", "a", "l">>,
      <<"a", "r", "e", "n", "a">>,
      <<"s", "t", "a", "d", "i", "u", "m">>,
      <<"h", "a", "l", "l">>,
      <<"t", "h", "e", "a", "t", "e", "r">>,
      <<"t", "h", "e", "a", "t", "r", "e">>,
      <<"a", "m", "p", "h", "i", "t", "h", "e", "a", "t", "r", "e">>,
      <<"a", "c", "o", "u", "s", "t", "i", "c">>,
      <<"b", "a", "c", "k", "s", "t", "a", "g", "e">>,
      <<"c", "r", "o", "w", "d">>,
      <<"f", "a", "n">>,
      <<"s", "e", "t", "l", "i", "s", "t">>,
      <<"b", "o", "o", "k", "i", "n", "g">>,
      <<"s", "o", "l", "d", " ", "o", "u", "t">>,
      <<"w", "o", "r", "l", "d", " ", "t", "o", "u", "r">>,
      <<"o", "p", "e", "n", "i", "n", "g", " ", "a", "c", "t">>,
      <<"h", "e", "a", "d", "l", "i", "n", "e", "r">>,
      <<"s", "p", "e", "c", "i", "a", "l", " ", "g", "u", "e", "s", "t">>>>

\* document_processor.py line 32
TARGET_YEARS == <<<<"2", "0", "2", "5">>,
      <<"2", "0", "2", "6">>>>

MinKeywords == 3

\* The sum of line 57: the entries of the list standing in the text.
RECURSIVE keyword_count(_, _)
keyword_count(text_lower, n) ==
    IF n = 0 THEN 0
    ELSE keyword_count(text_lower, n - 1)
         + (IF contains(text_lower, lower(CONCERT_KEYWORDS[n])) THEN 1 ELSE 0)

\* is_relevant_document that looks for the keywords in the text as typed.
is_relevant_document_CaseSensitive(text) ==
    /\ \E y \in 1..Len(TARGET_YEARS) : contains(text, TARGET_YEARS[y])
    /\ keyword_count(text, Len(CONCERT_KEYWORDS)) >= MinKeywords

is_relevant_document(text) ==
    /\ \E y \in 1..Len(TARGET_YEARS) : contains(text, TARGET_YEARS[y])
    /\ keyword_count(lower(text), Len(CONCERT_KEYWORDS)) >= MinKeywords

\* process_document; summary is what summarize_document made of the text.
process_document(text, summary) ==
    IF ~is_relevant_document(text) THEN <<FALSE, None>> ELSE <<TRUE, Str(summary)>>

\* The inputs: a command line or a document is up to MaxSegments of these
\* pieces in a row.
MaxSegments == 3

QuerySegments ==
    {<<"A", "d", "d", " ", "t", "h", "i", "s", " ", "d", "o", "c", "u", "m", "e", "n", "t", ":">>,
     <<"H", "e", "r", "e", " ", "i", "s", " ", "t", "h", "e", " ", "d", "o", "c", "u", "m", "e", "n", "t", ":">>,
     <<"s", "t", "o", "r", "e", " ", "t", "h", "i", "s", " ", "i", "n", "f", "o">>,
     <<"[", " ", "G", "i", "g">>,
     <<" ", "]">>,
     <<"\"">>,
     <<" ", "T", "o", "u", "r", " ">>}

TextSegments ==
    {<<"2", "0", "2", "5">>,
     <<"2", "0", "2", "6">>,
     <<"2", "0", "2", "4">>,
     <<"T", "o", "u", "r">>,
     <<" ", "w", "o", "r", "l", "d", " ", "t", "o", "u", "r", " ">>,
     <<"g", "i", "g">>,
     <<"S", "h", "o", "w">>}

RECURSIVE Pieces(_, _)
Pieces(segments, n) ==
    IF n = 0 THEN {<<>>}
    ELSE Pieces(segments, n - 1)
         \cup {p \o s : p \in Pieces(segments, n - 1), s \in segments}

\* A text of more than LongQuery characters, and the command lines that
\* carry it after a command without delimiters or lead-in phrase.
LongText == <<"X">> \o [i \in 1..LongQuery |-> "x"]
LongCommands ==
    {<<>>,
     <<"P", "l", "e", "a", "s", "e", " ", "a", "d", "d", " ", "t", "h", "i", "s", " ", "d", "o", "c", "u", "m", "e", "n", "t">>,
     <<"P", "r", "o", "c", "e", "s", "s", " ", "t", "h", "i", "s", " ", "d", "o", "c", "u", "m", "e", "n", "t">>,
     <<"s", "t", "o", "r", "e", " ", "t", "h", "i", "s", " ", "i", "n", "f", "o">>}
LongSeparators ==
    {<<>>,
     <<" ">>,
     <<" ", "-", " ">>,
     <<" ", ":", " ">>}
LongQueries == {c \o d \o LongText : c \in LongCommands, d \in LongSeparators}

Queries == Pieces(QuerySegments, MaxSegments) \cup LongQueries
Texts == Pieces(TextSegments, MaxSegments)

\* A call of a function of one argument, as its caller sees it.
FunctionCall(op, arg, value) == [Call(op, "returned", value) EXCEPT !.args = <<arg>>]

\* The text typed, before any function is applied to it.
Input(kind, text) == [Call("input", kind, None) EXCEPT !.args = <<text>>]
Typed(kind) == last.op = "input" /\ last.status = kind

ExtractDocumentFromQuery ==
    /\ Typed("query")
    /\ last' = FunctionCall("extract_document_from_query", last.args[1],
                            extract_document_from_query(last.args[1]))
    /\ UNCHANGED <<index, metadata, index_file, meta_file, uuid_ctr, clock>>
    /\ UNCHANGED concurrent

DetectQueryType ==
    /\ Typed("query")
    /\ last' = FunctionCall("detect_query_type", last.args[1],
                            detect_query_type(last.args[1]))
    /\ UNCHANGED <<index, metadata, index_file, meta_file, uuid_ctr, clock>>
    /\ UNCHANGED concurrent

ParseUserQuery ==
    /\ Typed("query")
    /\ last' = FunctionCall("parse_user_query", last.args[1],
                            parse_user_query(last.args[1]))
    /\ UNCHANGED <<index, metadata, index_file, meta_file, uuid_ctr, clock>>
    /\ UNCHANGED concurrent

IsRelevantDocument ==
    /\ Typed("text")
    /\ last' = FunctionCall("is_relevant_document", last.args[1],
                            is_relevant_document(last.args[1]))
    /\ UNCHANGED <<index, metadata, index_file, meta_file, uuid_ctr, clock>>
    /\ UNCHANGED concurrent

ProcessDocument(summary) ==
    /\ Typed("text")
    /\ last' = FunctionCall("process_document", last.args[1],
                            process_document(last.args[1], summary))
    /\ UNCHANGED <<index, metadata, index_file, meta_file, uuid_ctr, clock>>
    /\ UNCHANGED concurrent

\* The functions are applied to a text typed into a fresh process.
InitText ==
    /\ index_file = NoFile
    /\ meta_file = NoFile
    /\ index = Construct(NoFile, NoFile).index
    /\ metadata = Construct(NoFile, NoFile).metadata
    /\ uuid_ctr = 0
    /\ clock = 0
    /\ inflight = [t \in Threads |-> Idle]
    /\ other = NoInstance
    /\ \/ \E q \in Queries : last = Input("query", q)
       \/ \E t \in Texts : last = Input("text", t)

NextText ==
    \/ ExtractDocumentFromQuery
    \/ DetectQueryType
    \/ ParseUserQuery
    \/ IsRelevantDocument
    \/ \E s \in Summaries : ProcessDocument(s)

SpecText == InitText /\ [][NextText]_vars

---------------------------------------------------------------------------
(* A session on a directory that already holds files *)

\* What an earlier run left in the directory: one document of one chunk,
\* with an id that uuid4 does not hand out again.
PriorCorpus ==
    Ingest(IndexFlatL2(embedding_dimension), EmptyMetadata, <<"gamma">>, "s1", 0, 0)

\* The index of that run had its embedder produced vectors of another
\* dimension (another model name at line 35).
PriorIndexOtherDimension ==
    [d |-> embedding_dimension + 1, xb |-> <<[j \in 1..(embedding_dimension + 1) |->
                                                 IF j = 1 THEN Unit ELSE 0]>>]

\* The directories a session starts on: empty, both files of the earlier
\* run, its metadata file without the index file, and both files with an
\* index of another dimension.  (An index file without a readable metadata
\* file makes the constructor raise; a failed flush leaves that pair.)
Directories ==
    {[index_file |-> NoFile, meta_file |-> NoFile],
     [index_file |-> write_index(PriorCorpus.index),
      meta_file |-> json_dump(PriorCorpus.metadata)],
     [index_file |-> NoFile, meta_file |-> json_dump(PriorCorpus.metadata)],
     [index_file |-> write_index(PriorIndexOtherDimension),
      meta_file |-> json_dump(PriorCorpus.metadata)]}

InitDirectory ==
    /\ \E dir \in Directories :
           /\ index_file = dir.index_file
           /\ meta_file = dir.meta_file
           /\ index = Construct(dir.index_file, dir.meta_file).index
           /\ metadata = Construct(dir.index_file, dir.meta_file).metadata
    /\ uuid_ctr = 0
    /\ clock = 0
    /\ inflight = [t \in Threads |-> Idle]
    /\ other = NoInstance
    /\ last = Call("__init__", "returned", "RAGSystem")

\* add_document that writes the chunk records before index.add checks the
\* embeddings.
AddDocumentDimensionMismatch_RecordsFirst(document_text, summary) ==
    /\ index.d # embedding_dimension
    /\ Len(split_text(document_text)) > 0
    /\ metadata' = RecordChunks(metadata, split_text(document_text), uuid_ctr + 1,
                                Len(split_text(document_text)))
    /\ last' = AddCall("raised", "AssertionError", document_text, summary)
    /\ UNCHANGED <<index, index_file, meta_file, uuid_ctr, clock>>
    /\ UNCHANGED concurrent

\* add_document on an index of another dimension than the embedder's:
\* index.add (line 96) checks the second axis of the array against index.d
\* and raises before it stores anything; lines 99-119 are not reached.
AddDocumentDimensionMismatch(document_text, summary) ==
    /\ index.d # embedding_dimension
    /\ Len(split_text(document_text)) > 0
    /\ last' = AddCall("raised", "AssertionError", document_text, summary)
    /\ UNCHANGED <<index, metadata, index_file, meta_file, uuid_ctr, clock>>
    /\ UNCHANGED concurrent

\* search on such an index: index.search (line 145) makes the same check.
SearchDimensionMismatch(query, k) ==
    /\ index.d # embedding_dimension
    /\ last' = [Call("search", "raised", "AssertionError") EXCEPT !.query = query, !.k = k]
    /\ UNCHANGED <<index, metadata, index_file, meta_file, uuid_ctr, clock>>
    /\ UNCHANGED concurrent

\* "Clear All Documents", confirmed (streamlit_app.py lines 219-226): the
\* button acts when the session lists documents, and puts a new RAGSystem()
\* in the place of the session's instance.
ClearAllDocuments ==
    LET new == Construct(index_file, meta_file)
    IN  /\ Len(get_all_documents(metadata)) > 0
        /\ last' = Call("clear_all_documents", new.status,
                        IF new.status = "returned" THEN "removed" ELSE new.value)
        /\ IF new.status = "returned"
           THEN index' = new.index /\ metadata' = new.metadata
           ELSE UNCHANGED <<index, metadata>>
        /\ UNCHANGED <<index_file, meta_file, uuid_ctr, clock>>
        /\ UNCHANGED concurrent

NextDirectory ==
    \/ \E t \in FaultTexts, s \in FaultSummaries : AddDocument(t, s)
    \/ \E t \in FaultTexts, s \in FaultSummaries : AddDocumentNoChunks(t, s)
    \/ \E t \in FaultTexts, s \in FaultSummaries, w \in SaveFailures :
           AddDocumentSaveFails(t, s, w)
    \/ \E t \in FaultTexts, s \in FaultSummaries : AddDocumentDimensionMismatch(t, s)
    \/ \E q \in FaultQueries, k \in 1..MaxK : Search(q, k)
    \/ \E q \in FaultQueries, k \in 1..MaxK : SearchDimensionMismatch(q, k)
    \/ Restart
    \/ ClearAllDocuments

SpecDirectory == InitDirectory /\ [][NextDirectory]_vars

---------------------------------------------------------------------------
(* Calls of several threads on one instance *)

\* add_document has no lock: a thread can be suspended between any two of
\* its statements.  A thread inside the call carries the locals of the
\* call and the statement it executes next; `before` is the state of the
\* instance when the call began and `overlapped` tells whether another
\* add_document was in flight at some time during the call.
InFlight == {t \in Threads : inflight[t] # Idle}

\* The rows that the calls in flight have still to add.
RECURSIVE PendingRows(_)
PendingRows(ts) ==
    IF ts = {} THEN 0
    ELSE LET t == CHOOSE u \in ts : TRUE
         IN  (IF inflight[t] # Idle /\ inflight[t].pc = "index.add"
              THEN Len(inflight[t].chunks) ELSE 0) + PendingRows(ts \ {t})

\* The call in flight in thread t, as last reports it.
Running(t) ==
    AddCall("running", inflight[t].doc_id, inflight[t].document_text, inflight[t].summary)

\* Lines 86-95: the id, the chunks and their normalised embeddings.
AddDocumentBegin(t, document_text, summary) ==
    /\ inflight[t] = Idle
    /\ uuid_ctr < MaxDocs
    /\ Len(split_text(document_text)) > 0
    /\ index.d = embedding_dimension
    /\ ntotal(index) + PendingRows(Threads) + Len(split_text(document_text)) <= MaxRows
    /\ inflight' =
           [u \in Threads |->
               IF u = t
               THEN [pc |-> "index.add",
                     doc_id |-> uuid_ctr + 1,
                     document_text |-> document_text,
                     summary |-> summary,
                     chunks |-> split_text(document_text),
                     chunk_embeddings |->
                         normalize_L2(_generate_embeddings(split_text(document_text))),
                     start_idx |-> 0,
                     i |-> 0,
                     before |-> [index |-> index, metadata |-> metadata],
                     overlapped |-> InFlight # {}]
               ELSE IF inflight[u] = Idle THEN Idle
               ELSE [inflight[u] EXCEPT !.overlapped = TRUE]]
    /\ uuid_ctr' = uuid_ctr + 1
    /\ last' = AddCall("running", uuid_ctr + 1, document_text, summary)
    /\ UNCHANGED <<index, metadata, index_file, meta_file, clock, other>>

\* Line 96: self.index.add(chunk_embeddings)
AddDocumentIndexAdd(t) ==
    /\ inflight[t] # Idle /\ inflight[t].pc = "index.add"
    /\ index' = IndexAdd(index, inflight[t].chunk_embeddings)
    /\ inflight' = [inflight EXCEPT ![t].pc = "start_idx"]
    /\ last' = Running(t)
    /\ UNCHANGED <<metadata, index_file, meta_file, uuid_ctr, clock, other>>

\* Line 99: start_idx = len(self.metadata["chunks"])
AddDocumentStartIdx(t) ==
    /\ inflight[t] # Idle /\ inflight[t].pc = "start_idx"
    /\ inflight' = [inflight EXCEPT ![t].pc = "chunks",
                                    ![t].start_idx = Len(metadata.chunks)]
    /\ last' = Running(t)
    /\ UNCHANGED <<index, metadata, index_file, meta_file, uuid_ctr, clock, other>>

\* Lines 100-107, one iteration of the loop.
AddDocumentChunk(t) ==
    /\ inflight[t] # Idle /\ inflight[t].pc = "chunks"
    /\ inflight[t].i < Len(inflight[t].chunks)
    /\ metadata' = [metadata EXCEPT !.chunks = Append(@,
                        [text |-> inflight[t].chunks[inflight[t].i + 1],
                         document_id |-> inflight[t].doc_id,
                         chunk_id |-> inflight[t].start_idx + inflight[t].i,
                         position |-> inflight[t].i])]
    /\ inflight' = [inflight EXCEPT ![t].i = @ + 1]
    /\ last' = Running(t)
    /\ UNCHANGED <<index, index_file, meta_file, uuid_ctr, clock, other>>

\* Lines 110-116, after the loop: the document record.
AddDocumentRecord(t) ==
    /\ inflight[t] # Idle /\ inflight[t].pc = "chunks"
    /\ inflight[t].i = Len(inflight[t].chunks)
    /\ metadata' = RecordDocument(metadata, inflight[t].start_idx, inflight[t].chunks,
                                  inflight[t].doc_id, inflight[t].summary, clock)
    /\ clock' = clock + 1
    /\ inflight' = [inflight EXCEPT ![t].pc = "_save"]
    /\ last' = Running(t)
    /\ UNCHANGED <<index, index_file, meta_file, uuid_ctr, other>>

\* Lines 119-121: _save writes what the instance holds at that moment, and
\* the call returns the id.
AddDocumentSaveAndReturn(t) ==
    /\ inflight[t] # Idle /\ inflight[t].pc = "_save"
    /\ index_file' = _save(index, metadata).index_file
    /\ meta_file' = _save(index, metadata).meta_file
    /\ inflight' = [inflight EXCEPT ![t] = Idle]
    /\ last' = AddCall("returned", inflight[t].doc_id, inflight[t].document_text,
                       inflight[t].summary)
    /\ UNCHANGED <<index, metadata, uuid_ctr, clock, other>>

\* The threads work on an instance that has loaded the files of an
\* earlier run; their documents have one chunk of another text.
InitThreads ==
    /\ index_file = write_index(PriorCorpus.index)
    /\ meta_file = json_dump(PriorCorpus.metadata)
    /\ index = Construct(index_file, meta_file).index
    /\ metadata = Construct(index_file, meta_file).metadata
    /\ uuid_ctr = 0
    /\ clock = 1
    /\ inflight = [t \in Threads |-> Idle]
    /\ other = NoInstance
    /\ last = Call("__init__", "returned", "RAGSystem")

ThreadTexts == {<<"alpha">>}
ThreadQueries == {"alpha"}

NextThreads ==
    \/ \E t \in Threads, d \in ThreadTexts, s \in FaultSummaries : AddDocumentBegin(t, d, s)
    \/ \E t \in Threads : AddDocumentIndexAdd(t)
    \/ \E t \in Threads : AddDocumentStartIdx(t)
    \/ \E t \in Threads : AddDocumentChunk(t)
    \/ \E t \in Threads : AddDocumentRecord(t)
    \/ \E t \in Threads : AddDocumentSaveAndReturn(t)
    \/ \E q \in ThreadQueries, k \in 1..MaxK : Search(q, k)

SpecThreads == InitThreads /\ [][NextThreads]_vars

---------------------------------------------------------------------------
(* Two instances on one directory *)

\* Two RAGSystem objects constructed on the same directory (two UI
\* sessions, streamlit_app.py line 33; two command processes, main.py lines
\* 53 and 66).  index, metadata and last are those of the instance that
\* acts; other holds the instance that waits, with the ids of the documents
\* it has added.  The files are shared.
InitInstances ==
    /\ index_file = NoFile
    /\ meta_file = NoFile
    /\ index = Construct(NoFile, NoFile).index
    /\ metadata = Construct(NoFile, NoFile).metadata
    /\ uuid_ctr = 0
    /\ clock = 0
    /\ inflight = [t \in Threads |-> Idle]
    /\ last = Call("__init__", "returned", "RAGSystem")
    /\ other = [index |-> Construct(NoFile, NoFile).index,
                metadata |-> Construct(NoFile, NoFile).metadata,
                last |-> Call("__init__", "returned", "RAGSystem"),
                added |-> {}]

\* The instance that waited acts next.
SwitchInstance ==
    /\ other # NoInstance
    /\ index' = other.index
    /\ metadata' = other.metadata
    /\ last' = other.last
    /\ other' = [index |-> index, metadata |-> metadata, last |-> last,
                 added |-> (1..uuid_ctr) \ other.added]
    /\ UNCHANGED <<index_file, meta_file, uuid_ctr, clock, inflight>>

NextInstances ==
    \/ \E t \in FaultTexts, s \in FaultSummaries : AddDocument(t, s)
    \/ \E q \in FaultQueries, k \in 1..MaxK : Search(q, k)
    \/ SwitchInstance

SpecInstances == InitInstances /\ [][NextInstances]_vars

---------------------------------------------------------------------------
(* Vocabulary of the properties *)

\* The vector the index should hold for a text: its normalised embedding.
EmbeddedTexts == [text \in QueryTexts |-> renorm_L2(encode(text))]
Embedded(text) == EmbeddedTexts[text]

\* The chunk records of the instance, and the one with a given chunk_id.
Chunks == metadata.chunks
NumChunks == Len(metadata.chunks)

Returned(op) == last.op = op /\ last.status = "returned"
Raised(op, error) == last.op = op /\ last.status = "raised" /\ last.value = error

---------------------------------------------------------------------------
(* C1 *)

\* C1: the chunk records carry the chunk_id values 0..N-1 in list order,
\* the index holds one row per chunk record, and row i of the index is the
\* normalised embedding of the text of the chunk record with chunk_id i.
C1_ChunkIdIsIndexRow ==
    /\ \A i \in 1..NumChunks : Chunks[i].chunk_id = i - 1
    /\ ntotal(index) = NumChunks
    /\ \A i \in 1..NumChunks : index.xb[Chunks[i].chunk_id + 1] = Embedded(Chunks[i].text)

\* Two add_document calls have returned, the second on a corpus that
\* already held chunks.
C1_Witness ==
    /\ Returned("add_document")
    /\ Len(metadata.documents) = 2
    /\ NumChunks >= 3

---------------------------------------------------------------------------
(* C2 *)

\* C2: between operations, also after an add_document that raised, the
\* index holds as many rows as there are chunk records.
C2_RowCountIsChunkCount == ntotal(index) = NumChunks

---------------------------------------------------------------------------
(* C3 *)

\* C3: a step in which add_document raises the embedder's failure leaves
\* the index, the chunk records, the document records and both files as
\* they were.
C3_EmbedderFailureChangesNothing ==
    [][(last'.op = "add_document" /\ last'.status = "raised"
            /\ last'.value = "EmbedderError")
        => /\ index' = index
           /\ metadata' = metadata
           /\ index_file' = index_file
           /\ meta_file' = meta_file]_vars

\* The embedder has failed in an add_document on a corpus that holds a
\* document.
C3_Witness ==
    /\ Raised("add_document", "EmbedderError")
    /\ Len(metadata.documents) >= 1
    /\ exists(index_file)

---------------------------------------------------------------------------
(* C4 *)

\* The records with the given id in a list of document records.
DocumentsWithId(documents, doc_id) ==
    SelectSeq(documents, LAMBDA doc : doc.id = doc_id)

\* C4: when add_document has returned a document id, the two files hold
\* the index and the metadata of the instance, and a RAGSystem constructed
\* on the directory lists that document with all of its chunks and holds
\* their vectors.
C4_ReturnedMeansFlushed ==
    Returned("add_document") =>
        /\ exists(index_file)
        /\ exists(meta_file)
        /\ index_file = write_index(index)
        /\ meta_file = json_dump(metadata)
        /\ \E loaded \in {Construct(index_file, meta_file)} :
            /\ loaded.status = "returned"
            /\ Len(DocumentsWithId(get_all_documents(loaded.metadata), last.value)) = 1
            /\ DocumentsWithId(get_all_documents(loaded.metadata), last.value)
                   = DocumentsWithId(metadata.documents, last.value)
            /\ get_document_chunks(loaded.metadata, last.value)
                   = get_document_chunks(metadata, last.value)
            /\ Len(get_document_chunks(loaded.metadata, last.value)) >= 1
            /\ loaded.index.xb = index.xb

\* add_document has returned the id of a second document.
C4_Witness ==
    /\ Returned("add_document")
    /\ last.value = 2
    /\ Len(metadata.documents) = 2

---------------------------------------------------------------------------
(* C5 *)

\* C5: a step that constructs a RAGSystem from the files the instance has
\* saved yields the same document list and the same chunks of every
\* document, and, constructed right after an add_document call, the same
\* search results for every query and every k (every corpus is the corpus
\* right after some add_document call).
C5_SaveLoadRoundTrip ==
    [][(last'.op = "__init__" /\ last'.status = "returned"
            /\ index_file = write_index(index) /\ meta_file = json_dump(metadata))
        => /\ get_all_documents(metadata') = get_all_documents(metadata)
           /\ \A i \in 1..Len(metadata.documents) :
                 get_document_chunks(metadata', metadata.documents[i].id)
                     = get_document_chunks(metadata, metadata.documents[i].id)
           /\ last.op = "add_document"
                 => \A q \in QueryTexts, k \in 1..MaxK :
                        search(index', metadata', q, k).results
                            = search(index, metadata, q, k).results]_vars

\* A RAGSystem has been constructed from the saved files of a corpus with
\* two documents.
C5_Witness ==
    /\ Returned("__init__")
    /\ Len(metadata.documents) = 2
    /\ NumChunks >= 3
    /\ index_file = write_index(index)

---------------------------------------------------------------------------
(* C6 *)

\* C6: search does not return normally when index.search hands it a row
\* that has no chunk record; stated as: whenever search has returned, every
\* row it received had a chunk record.
C6_NoRowSilentlyDropped ==
    Returned("search") =>
        \A r \in 1..last.k : last.I[r] >= 0 => last.I[r] < NumChunks

---------------------------------------------------------------------------
(* C7 *)

\* C7: search on a corpus with no index rows and no chunk records returns
\* the empty list.
C7_EmptyCorpusSearch ==
    (last.op = "search" /\ ntotal(index) = 0 /\ NumChunks = 0)
        => last.status = "returned" /\ last.value = <<>>

\* search was called with the largest k on the fresh corpus.
C7_Witness ==
    /\ last.op = "search"
    /\ last.k = MaxK
    /\ ntotal(index) = 0
    /\ metadata = EmptyMetadata

---------------------------------------------------------------------------
(* C8, C9, C10: what search returned, against the chunk records *)

Min(a, b) == IF a <= b THEN a ELSE b

\* The distance of a chunk record to the last query, from the texts alone.
ChunkDistance(c) == L2sqr(Embedded(c.text), Embedded(last.query))

\* The chunk record behind the r-th result of the last search: the record
\* whose chunk_id is the r-th row number index.search handed back.
ResultChunk(r) == Chunks[last.I[r] + 1]

\* Fractions a and b as records [num, den] with positive denominators.
FracLess(a, b) == a.num * b.den < b.num * a.den

\* C8: search returns min(k, N) results for N chunk records, the results
\* are the text and document id of pairwise distinct chunk records, and so
\* all N chunks when N < k and at least one when there is a chunk.
C8_ResultCount ==
    Returned("search") =>
        /\ Len(last.value) = Min(last.k, NumChunks)
        /\ \A r \in 1..Len(last.value) :
              /\ last.I[r] \in 0..(NumChunks - 1)
              /\ last.value[r].text = ResultChunk(r).text
              /\ last.value[r].document_id = ResultChunk(r).document_id
        /\ \A r1, r2 \in 1..Len(last.value) : r1 # r2 => last.I[r1] # last.I[r2]
        /\ (NumChunks < last.k => Len(last.value) = NumChunks)
        /\ (NumChunks >= 1 => Len(last.value) >= 1)

\* search was asked for more results than there are chunks, on a corpus
\* with chunks.
C8_Witness ==
    /\ Returned("search")
    /\ last.k = 3
    /\ NumChunks = 2
    /\ Len(last.value) = 2

\* C9: the r-th result is the chunk with exactly r - 1 chunks before it in
\* the order "nearer to the query first, on equal distance the smaller
\* chunk_id first"; so the distances ascend and the scores do not.
C9_DistanceOrder ==
    Returned("search") =>
        /\ \A r \in 1..Len(last.value) :
              /\ last.value[r].text = ResultChunk(r).text
              /\ last.value[r].document_id = ResultChunk(r).document_id
              /\ Cardinality({i \in 1..NumChunks :
                     \/ ChunkDistance(Chunks[i]) < ChunkDistance(ResultChunk(r))
                     \/ /\ ChunkDistance(Chunks[i]) = ChunkDistance(ResultChunk(r))
                        /\ Chunks[i].chunk_id < ResultChunk(r).chunk_id}) = r - 1
        /\ \A r \in 1..(Len(last.value) - 1) :
              /\ ChunkDistance(ResultChunk(r)) <= ChunkDistance(ResultChunk(r + 1))
              /\ ~FracLess(last.value[r].score, last.value[r + 1].score)

\* search returned two chunks at the same distance and a farther one.
C9_Witness ==
    /\ Returned("search")
    /\ Len(last.value) = 3
    /\ ChunkDistance(ResultChunk(1)) = ChunkDistance(ResultChunk(2))
    /\ ChunkDistance(ResultChunk(2)) < ChunkDistance(ResultChunk(3))

\* C10: the score of a result is 1 / (1 + d) for the distance d of its
\* chunk (d = ChunkDistance / Unit^2): it is in (0, 1], it is 1 exactly
\* when d = 0, and of two results the farther one has the smaller score.
C10_ScoreOfDistance ==
    Returned("search") =>
        /\ \A r \in 1..Len(last.value) :
              LET sc == last.value[r].score
                  d == ChunkDistance(ResultChunk(r))
              IN  /\ d >= 0
                  /\ sc.den > 0
                  /\ sc.num * (Unit * Unit + d) = sc.den * (Unit * Unit)
                  /\ sc.num > 0
                  /\ sc.num <= sc.den
                  /\ (sc.num = sc.den) <=> (d = 0)
        /\ \A r1, r2 \in 1..Len(last.value) :
              ChunkDistance(ResultChunk(r1)) < ChunkDistance(ResultChunk(r2))
                  => FracLess(last.value[r2].score, last.value[r1].score)

\* search returned a chunk at distance 0 and a chunk farther away.
C10_Witness ==
    /\ Returned("search")
    /\ Len(last.value) >= 2
    /\ ChunkDistance(ResultChunk(1)) = 0
    /\ ChunkDistance(ResultChunk(Len(last.value))) > 0

---------------------------------------------------------------------------
(* C11 *)

\* The last call was add_document, with arguments, on a text that the
\* splitter cuts into no chunk.
AddedEmptyText ==
    /\ last.op = "add_document"
    /\ Len(last.args) = 2
    /\ Len(split_text(last.args[1])) = 0

\* C11: add_document on a text with zero chunks returns the new document
\* id, has recorded one document with an empty chunk_ids list and the
\* summary, holds no row and no chunk record of that document, and has
\* written both files.
C11_EmptyDocumentIsRecorded ==
    AddedEmptyText =>
        /\ last.status = "returned"
        /\ Len(DocumentsWithId(metadata.documents, last.value)) = 1
        /\ get_document_by_id(metadata, last.value) # None
        /\ get_document_by_id(metadata, last.value).chunk_ids = <<>>
        /\ get_document_by_id(metadata, last.value).summary = last.args[2]
        /\ get_document_chunks(metadata, last.value) = <<>>
        /\ ntotal(index) = NumChunks
        /\ index_file = write_index(index)
        /\ meta_file = json_dump(metadata)

---------------------------------------------------------------------------
(* C12 *)

\* The document ids add_document has returned: uuid4 has been called
\* uuid_ctr times, once in each call that got past the embedder.
ReturnedIds == 1..uuid_ctr

\* Ids a caller may ask for: the returned ones and ids never handed out.
AskedIds == 0..(MaxDocs + 1)

---------------------------------------------------------------------------
(* C13 *)

\* C13: get_all_documents lists one record per add_document call that
\* returned, in the order of the calls (the k-th call that returned holds
\* the k-th id and a timestamp not before the earlier ones), and a
\* RAGSystem constructed from the files lists the same records in the same
\* order.
C13_DocumentsInCallOrder ==
    /\ Len(get_all_documents(metadata)) = uuid_ctr
    /\ \A i \in 1..Len(get_all_documents(metadata)) :
          get_all_documents(metadata)[i].id = i
    /\ \A i \in 1..(Len(get_all_documents(metadata)) - 1) :
          get_all_documents(metadata)[i].timestamp
              < get_all_documents(metadata)[i + 1].timestamp
    /\ Returned("add_document") =>
          get_all_documents(metadata)[Len(get_all_documents(metadata))].id = last.value
    /\ Construct(index_file, meta_file).status = "returned"
    /\ get_all_documents(Construct(index_file, meta_file).metadata)
           = get_all_documents(metadata)

\* A RAGSystem was constructed from the files of a corpus with two
\* documents that have different summaries.
C13_Witness ==
    /\ Returned("__init__")
    /\ Len(get_all_documents(metadata)) = 2
    /\ get_all_documents(metadata)[1].summary # get_all_documents(metadata)[2].summary

---------------------------------------------------------------------------
(* C14 *)

\* C14: for every document record, get_document_chunks of its id returns
\* as many chunk records as the document has chunks, each with that
\* document_id and with the positions 0, 1, ..., n-1 in list order; right
\* after the add_document that returned the id, these are the chunks of
\* the text of the call, in the splitter's order.
C14_ChunksOfDocument ==
    /\ \A d \in 1..Len(metadata.documents) :
          /\ Len(get_document_chunks(metadata, metadata.documents[d].id))
                 = Len(metadata.documents[d].chunk_ids)
          /\ \A j \in 1..Len(get_document_chunks(metadata, metadata.documents[d].id)) :
                /\ get_document_chunks(metadata, metadata.documents[d].id)[j].document_id
                       = metadata.documents[d].id
                /\ get_document_chunks(metadata, metadata.documents[d].id)[j].position
                       = j - 1
    /\ Returned("add_document") =>
          /\ Len(get_document_chunks(metadata, last.value))
                 = Len(split_text(last.args[1]))
          /\ \A j \in 1..Len(split_text(last.args[1])) :
                get_document_chunks(metadata, last.value)[j].text
                    = split_text(last.args[1])[j]

\* A document of two chunks was added to a corpus that held a chunk.
C14_Witness ==
    /\ Returned("add_document")
    /\ last.value = 2
    /\ Len(get_document_chunks(metadata, 2)) = 2
    /\ Len(get_document_chunks(metadata, 1)) >= 1

---------------------------------------------------------------------------
(* C15 *)

\* The chunk_ids lists of the first n document records, one after another.
RECURSIVE ConcatChunkIds(_, _)
ConcatChunkIds(documents, n) ==
    IF n = 0 THEN <<>>
    ELSE ConcatChunkIds(documents, n - 1) \o documents[n].chunk_ids

\* The chunk_id values of the chunk records of a document, in list order.
ChunkIdsOf(doc_id) ==
    [j \in 1..Len(get_document_chunks(metadata, doc_id)) |->
        get_document_chunks(metadata, doc_id)[j].chunk_id]

\* C15: the chunk_ids of every document record are the chunk_id values of
\* the chunk records with its document_id, ascending, and the chunk_ids
\* lists of all documents in list order make up 0, 1, ..., N-1 for the N
\* chunk records.
C15_ChunkIdsPartition ==
    /\ \A d \in 1..Len(metadata.documents) :
          /\ metadata.documents[d].chunk_ids = ChunkIdsOf(metadata.documents[d].id)
          /\ \A j \in 1..(Len(metadata.documents[d].chunk_ids) - 1) :
                metadata.documents[d].chunk_ids[j] < metadata.documents[d].chunk_ids[j + 1]
    /\ ConcatChunkIds(metadata.documents, Len(metadata.documents))
           = [i \in 1..NumChunks |-> i - 1]

\* The corpus holds two documents, the second with chunk_ids that do not
\* start at 0.
C15_Witness ==
    /\ Len(metadata.documents) = 2
    /\ Len(metadata.documents[2].chunk_ids) = 2
    /\ metadata.documents[2].chunk_ids[1] > 0

---------------------------------------------------------------------------
(* C16 *)

\* List a is the beginning of list b, entry by entry.
IsPrefix(a, b) ==
    /\ Len(a) <= Len(b)
    /\ \A i \in 1..Len(a) : b[i] = a[i]

\* C16: a step that is an add_document call keeps every document record,
\* chunk record and index row it found, unchanged and at its place; a call
\* that returns appends one document record, and one chunk record and one
\* row per chunk of its text; a call that raises in the embedder or on an
\* empty text appends nothing.
C16_AppendOnly ==
    [][last'.op = "add_document"
        => /\ IsPrefix(metadata.documents, metadata'.documents)
           /\ IsPrefix(metadata.chunks, metadata'.chunks)
           /\ IsPrefix(index.xb, index'.xb)
           /\ index'.d = index.d
           /\ last'.status = "returned"
                 => /\ Len(metadata'.documents) = Len(metadata.documents) + 1
                    /\ Len(metadata'.chunks)
                           = Len(metadata.chunks) + Len(split_text(last'.args[1]))
                    /\ ntotal(index') = ntotal(index) + Len(split_text(last'.args[1]))
           /\ last'.status = "raised"
                 => /\ Len(metadata'.documents) = Len(metadata.documents)
                    /\ Len(metadata'.chunks) = Len(metadata.chunks)
                    /\ ntotal(index') = ntotal(index)]_vars

\* A second document was added whose last row differs from the first row
\* of the index.
C16_Witness ==
    /\ Returned("add_document")
    /\ last.value = 2
    /\ Len(metadata.documents) = 2
    /\ index.xb[1] # index.xb[ntotal(index)]

---------------------------------------------------------------------------
(* C17 *)

\* What a RAGSystem constructed on the directory would hold.
OnDisk == Construct(index_file, meta_file)

\* The files hold the stores of the instance.
Durable ==
    /\ index_file = write_index(index)
    /\ meta_file = json_dump(metadata)

\* C17: a step in which add_document raises the failure of _save has
\* appended the document record, the chunk records and the rows of the
\* call to the stores of the instance; and a step in which add_document
\* returns leaves files from which a RAGSystem loads every document
\* record, chunk record and row the instance held before the step, those
\* of earlier calls whose flush failed included.
C17_FlushFailureKeepsMemory ==
    [][/\ (last'.op = "add_document" /\ last'.status = "raised"
              /\ last'.value = "OSError")
          => /\ Len(metadata'.documents) = Len(metadata.documents) + 1
             /\ IsPrefix(metadata.documents, metadata'.documents)
             /\ metadata'.documents[Len(metadata'.documents)].summary = last'.args[2]
             /\ Len(metadata'.documents[Len(metadata'.documents)].chunk_ids)
                    = Len(split_text(last'.args[1]))
             /\ IsPrefix(metadata.chunks, metadata'.chunks)
             /\ Len(metadata'.chunks)
                    = Len(metadata.chunks) + Len(split_text(last'.args[1]))
             /\ IsPrefix(index.xb, index'.xb)
             /\ ntotal(index') = ntotal(index) + Len(split_text(last'.args[1]))
       /\ (last'.op = "add_document" /\ last'.status = "returned")
          => /\ Durable'
             /\ OnDisk'.status = "returned"
             /\ IsPrefix(metadata.documents, OnDisk'.metadata.documents)
             /\ IsPrefix(metadata.chunks, OnDisk'.metadata.chunks)
             /\ IsPrefix(index.xb, OnDisk'.index.xb)]_vars

\* add_document has raised the failure of _save: the instance holds the
\* document of the call and the files do not.
C17_Witness ==
    /\ Raised("add_document", "OSError")
    /\ Len(metadata.documents) >= 1
    /\ ~Durable
    /\ \/ OnDisk.status = "raised"
       \/ Len(OnDisk.metadata.documents) < Len(metadata.documents)

---------------------------------------------------------------------------
(* C18 *)

\* The corpus of the instance holds no document record / at least one.
Empty == Len(metadata.documents) = 0
Populated == Len(metadata.documents) >= 1

---------------------------------------------------------------------------
(* C19 *)

\* The chunk records whose text is the query of the last search.
ChunksWithQueryText == {c \in 1..NumChunks : Chunks[c].text = last.query}

\* The chunk records with the same embedding as chunk record c.
SameEmbedding(c) ==
    {e \in 1..NumChunks : Embedded(Chunks[e].text) = Embedded(Chunks[c].text)}

\* A score equal to 1.
IsOne(score) == score.num = score.den

\* C19 as stated: a search whose query is the text of a stored chunk
\* returns that chunk first (its text and its document id) with score 1.
C19_OwnChunkFirst ==
    Returned("search") =>
        \A c \in ChunksWithQueryText :
            /\ Len(last.value) >= 1
            /\ last.value[1].text = Chunks[c].text
            /\ last.value[1].document_id = Chunks[c].document_id
            /\ IsOne(last.value[1].score)

\* C19, amended: a search whose query is the text of a stored chunk
\* returns first, with score 1, the earliest inserted chunk among those
\* with the same embedding as that chunk; this is the chunk itself when
\* no chunk inserted before it has the same embedding.
C19_EarliestSameEmbeddingFirst ==
    Returned("search") =>
        \A c \in ChunksWithQueryText :
            /\ Len(last.value) >= 1
            /\ IsOne(last.value[1].score)
            /\ last.I[1] + 1 \in SameEmbedding(c)
            /\ \A e \in SameEmbedding(c) : last.I[1] + 1 <= e
            /\ last.value[1].text = ResultChunk(1).text
            /\ last.value[1].document_id = ResultChunk(1).document_id
            /\ (\A e \in SameEmbedding(c) : c <= e)
                  => /\ last.I[1] = Chunks[c].chunk_id
                     /\ last.value[1].text = last.query
                     /\ last.value[1].document_id = Chunks[c].document_id

\* The query was the text of a chunk of the second document, and the first
\* result is a chunk of the first document with the same embedding.
C19_Witness ==
    /\ Returned("search")
    /\ \E c \in ChunksWithQueryText :
          /\ Chunks[c].document_id = 2
          /\ Len(last.value) >= 2
          /\ last.value[1].document_id = 1
          /\ IsOne(last.value[1].score)

---------------------------------------------------------------------------
(* C20 *)

\* C20: a search step leaves the index, the metadata and both files as
\* they were; and when two searches with the same query and k follow one
\* another with no other call in between, both return the same list of
\* results (texts, document ids and scores, in the same order), which is
\* the list a search on the stores the step leaves would return.
C20_SearchReadOnly ==
    [][last'.op = "search"
        => /\ index' = index
           /\ metadata' = metadata
           /\ index_file' = index_file
           /\ meta_file' = meta_file
           /\ (last.op = "search" /\ last.query = last'.query /\ last.k = last'.k)
                 => /\ last'.status = last.status
                    /\ last'.value = last.value
           /\ last'.value = search(index', metadata', last'.query, last'.k).results]_vars

\* A search on a corpus of two documents returned three results.
C20_Witness ==
    /\ Returned("search")
    /\ Len(metadata.documents) = 2
    /\ Len(last.value) = 3
    /\ exists(index_file)

---------------------------------------------------------------------------
(* Command text and document text: vocabulary *)

\* The argument of the function call in last.
Arg == last.args[1]

\* The text between the first pair of delimiters of kind d, None without one.
Enclosed(query, d) == re_search(delimiters[d][1], delimiters[d][2], query)
HasDelimitedContent(query) == \E d \in 1..Len(delimiters) : Enclosed(query, d) # None
FirstPair(query) ==
    CHOOSE d \in 1..Len(delimiters) :
        /\ Enclosed(query, d) # None
        /\ \A e \in 1..(d - 1) : Enclosed(query, e) = None
DelimitedContent(query) == strip(Enclosed(query, FirstPair(query)).str)

\* The lead-in phrases and commands after which a document may follow.
LeadIns ==
    {phrases[i] : i \in 1..Len(phrases)}
    \cup {potential_commands[i] : i \in 1..Len(potential_commands)}

\* doc is what follows a lead-in phrase in the query as typed: a tail of
\* the query, stripped, with a lead-in phrase before it.
FollowsLeadIn(query, doc) ==
    \E p \in 1..(Len(query) + 1) :
        /\ doc = strip(From(query, p))
        /\ \E l \in LeadIns : contains(lower(SubSeq(query, 1, p - 1)), l)

\* C21: whenever extract_document_from_query returns a value other than
\* None, the value is content of the query as typed, stripped of surrounding
\* whitespace: the text between the first pair of delimiters when the query
\* has one, otherwise the text that follows a lead-in phrase, in its
\* original letter case.
C21_ExtractedVerbatim ==
    (last.op = "extract_document_from_query" /\ last.value # None) =>
        /\ last.value.str = strip(last.value.str)
        /\ IF HasDelimitedContent(Arg)
           THEN last.value.str = DelimitedContent(Arg)
           ELSE FollowsLeadIn(Arg, last.value.str)

\* The commands of ingestion: a verb, " this ", a noun.
IngestVerbs ==
    {<<"a", "d", "d">>,
     <<"u", "p", "l", "o", "a", "d">>,
     <<"i", "n", "g", "e", "s", "t">>,
     <<"s", "t", "o", "r", "e">>,
     <<"p", "r", "o", "c", "e", "s", "s">>,
     <<"s", "a", "v", "e">>,
     <<"i", "n", "c", "l", "u", "d", "e">>}
IngestNouns ==
    {<<"d", "o", "c", "u", "m", "e", "n", "t">>,
     <<"i", "n", "f", "o">>,
     <<"i", "n", "f", "o", "r", "m", "a", "t", "i", "o", "n">>,
     <<"t", "e", "x", "t">>,
     <<"c", "o", "n", "t", "e", "n", "t">>}
IngestCommands == {v \o <<" ", "t", "h", "i", "s", " ">> \o n : v \in IngestVerbs, n \in IngestNouns}
IsIngestCommand(query) == \E c \in IngestCommands : contains(lower(query), c)

\* C22: parse_user_query returns the type "ingest" exactly when the
\* lower-cased query holds one of the ingest commands, and "question"
\* otherwise; the document is None for every question, and for an ingest
\* query with delimited content it is that content.
C22_ParseUserQuery ==
    last.op = "parse_user_query" =>
        /\ last.value[1] = (IF IsIngestCommand(Arg) THEN "ingest" ELSE "question")
        /\ last.value[1] = "question" => last.value[2] = None
        /\ (last.value[1] = "ingest" /\ HasDelimitedContent(Arg)) =>
               last.value[2] = Str(DelimitedContent(Arg))

\* An ingest command typed with a capital letter and delimited content has
\* been parsed; the content has whitespace at its ends.
C22_Witness ==
    /\ last.op = "parse_user_query"
    /\ last.value[1] = "ingest"
    /\ lower(Arg) # Arg
    /\ HasDelimitedContent(Arg)
    /\ last.value[2] # None
    /\ Enclosed(Arg, FirstPair(Arg)).str # DelimitedContent(Arg)

\* The text holds one of the target years.
HasTargetYear(text) == \E y \in 1..Len(TARGET_YEARS) : contains(text, TARGET_YEARS[y])

\* The entries of CONCERT_KEYWORDS that occur in the text, whatever the case.
KeywordsIn(text) ==
    {k \in 1..Len(CONCERT_KEYWORDS) : contains(lower(text), lower(CONCERT_KEYWORDS[k]))}

Relevant(text) == HasTargetYear(text) /\ Cardinality(KeywordsIn(text)) >= 3

\* C23: is_relevant_document is true exactly when the text holds the year
\* 2025 or 2026 and at least 3 distinct entries of CONCERT_KEYWORDS occur
\* in it case-insensitively; process_document returns (False, None) for
\* every text that is rejected.
C23_RelevantDocument ==
    /\ last.op = "is_relevant_document" => last.value = Relevant(Arg)
    /\ (last.op = "process_document" /\ ~Relevant(Arg)) => last.value = <<FALSE, None>>

\* A text with a target year and three keywords, one of them typed with a
\* capital letter, has been accepted.
C23_Witness ==
    /\ last.op = "is_relevant_document"
    /\ last.value = TRUE
    /\ Cardinality(KeywordsIn(Arg)) = 3
    /\ lower(Arg) # Arg

---------------------------------------------------------------------------
(* C24 *)

\* The number of chunks each file of the directory describes: the rows of
\* the index file, the chunk records of the metadata file.
IndexFileRows == IF exists(index_file) THEN index_file.ntotal ELSE 0
MetaFileChunks == IF meta_file.kind = "json" THEN Len(meta_file.chunks) ELSE 0

\* C24: at every instant, also after a flush that failed between its two
\* writes, the index file and the metadata file describe the same number
\* of chunks, and a RAGSystem loaded from them has as many rows as chunk
\* records.
C24_FilesDescribeSameChunks ==
    /\ IndexFileRows = MetaFileChunks
    /\ Returned("__init__") => ntotal(index) = NumChunks

---------------------------------------------------------------------------
(* C25 *)

\* After the step, the instance holds what both files hold.
LoadedBoth ==
    /\ exists(index_file') /\ meta_file'.kind = "json"
    /\ index' = read_index(index_file')
    /\ metadata' = json_load(meta_file')

\* After the step, the instance holds two empty stores.
StartedEmpty == ntotal(index') = 0 /\ metadata' = EmptyMetadata

\* The step is a flush that add_document completed.
Flushed == last'.op = "add_document" /\ last'.status = "returned"

\* C25: whatever files the directory holds, constructing a RAGSystem
\* returns an instance that either has loaded both stores or has two empty
\* stores, and the flush of a later add_document keeps every document the
\* metadata file held.
C25_StartupIsTransactional ==
    [][/\ last'.op = "__init__" =>
              /\ last'.status = "returned"
              /\ LoadedBoth \/ StartedEmpty
       /\ (Flushed /\ meta_file.kind = "json") =>
              /\ meta_file'.kind = "json"
              /\ IsPrefix(meta_file.documents, meta_file'.documents)]_vars

---------------------------------------------------------------------------
(* C28 *)

\* C28: after the confirmed "Clear All Documents" the session's RAGSystem
\* holds no document, no chunk and no row, and every search returns the
\* empty list, whatever was ingested and saved before.
C28_ClearAllLeavesNothing ==
    Returned("clear_all_documents") =>
        /\ Len(get_all_documents(metadata)) = 0
        /\ NumChunks = 0
        /\ ntotal(index) = 0
        /\ \A q \in FaultQueries, k \in 1..MaxK :
               search(index, metadata, q, k).results = <<>>

---------------------------------------------------------------------------
(* C29 *)

\* The embedder's dimension differs from the dimension of the index.
DimensionMismatch == index.d # embedding_dimension

\* C29: an add_document on an index whose dimension differs from the
\* embedder's raises to its caller, and leaves the rows of the index, the
\* chunk records and the document records as they were.
C29_MismatchRejected ==
    [][(DimensionMismatch /\ last'.op = "add_document") =>
           /\ last'.status = "raised"
           /\ index' = index
           /\ metadata'.chunks = metadata.chunks
           /\ metadata'.documents = metadata.documents]_vars

\* An add_document of a text with chunks has been rejected by an index of
\* another dimension that was loaded from the directory with its row.
C29_Witness ==
    /\ Raised("add_document", "AssertionError")
    /\ Len(last.args) = 2 /\ Len(split_text(last.args[1])) > 0
    /\ DimensionMismatch
    /\ exists(index_file) /\ index = read_index(index_file)
    /\ ntotal(index) > 0
    /\ NumChunks > 0

---------------------------------------------------------------------------
(* C26 *)

\* The corpus an add_document in flight started from, and the corpus it
\* leaves when it runs alone.
PreIngest(task) == task.before
PostIngest(task) ==
    Ingest(task.before.index, task.before.metadata, task.document_text,
           task.summary, task.doc_id, clock)

\* What the search in last returns on a corpus.
ResultsOn(corpus) == search(corpus.index, corpus.metadata, last.query, last.k).results

\* C26: a search that ran while one add_document was in flight on the
\* instance returned what it returns on the corpus before that ingest or
\* on the corpus after it.
C26_SearchSeesNoPartialIngest ==
    \A t \in Threads :
        (/\ last.op = "search"
         /\ InFlight = {t}
         /\ ~inflight[t].overlapped) =>
            \/ last.value = ResultsOn(PreIngest(inflight[t]))
            \/ last.value = ResultsOn(PostIngest(inflight[t]))

---------------------------------------------------------------------------
(* C27 *)

\* Two add_document calls of the threads have returned and none is in flight.
BothReturned == InFlight = {} /\ uuid_ctr >= 2

\* C27: once two add_document calls on the instance have returned,
\* however their statements interleaved, every chunk_id is the index row
\* of its chunk's vector, no chunk_id is assigned twice, and the chunk_ids
\* of a document are the chunk_ids of its own chunks.
C27_InterleavedAddsAreSerial ==
    BothReturned =>
        /\ ntotal(index) = NumChunks
        /\ \A c \in 1..NumChunks :
               /\ Chunks[c].chunk_id < ntotal(index)
               /\ index.xb[Chunks[c].chunk_id + 1] = Embedded(Chunks[c].text)
        /\ \A c1, c2 \in 1..NumChunks :
               Chunks[c1].chunk_id = Chunks[c2].chunk_id => c1 = c2
        /\ \A d \in 1..Len(metadata.documents) :
               \A j \in 1..Len(metadata.documents[d].chunk_ids) :
                   /\ \E c \in 1..NumChunks :
                          Chunks[c].chunk_id = metadata.documents[d].chunk_ids[j]
                   /\ \A c \in 1..NumChunks :
                          Chunks[c].chunk_id = metadata.documents[d].chunk_ids[j]
                              => Chunks[c].document_id = metadata.documents[d].id

---------------------------------------------------------------------------
(* C30 *)

\* The ids of the documents the acting instance has added.
AddedHere == ReturnedIds \ other.added

\* The chunk records of a metadata value that belong to a document.
ChunksOfIn(md, doc_id) == {c \in 1..Len(md.chunks) : md.chunks[c].document_id = doc_id}

\* C30: when two instances, both constructed on the directory before
\* either ingested, have each completed an add_document, a RAGSystem
\* constructed on the directory lists every document they added, each with
\* all its chunks.
C30_NoIngestLost ==
    (other # NoInstance /\ other.added # {} /\ AddedHere # {}) =>
        /\ OnDisk.status = "returned"
        /\ \A id \in ReturnedIds :
               \E d \in 1..Len(OnDisk.metadata.documents) :
                   /\ OnDisk.metadata.documents[d].id = id
                   /\ Len(OnDisk.metadata.documents[d].chunk_ids) >= 1
                   /\ Cardinality(ChunksOfIn(OnDisk.metadata, id))
                          = Len(OnDisk.metadata.documents[d].chunk_ids)

====
